---- MODULE Spec2Model ----
(***************************************************************************)
(* Model of the logging framework of QA-DREAM-TEAM/test_repo:              *)
(*   src/config/logging.config.js   logger, transports, middleware         *)
(*   src/config/logging.utils.js    domain wrappers, redaction, timers     *)
(*   src/examples/logging-examples.js   process-level hooks                *)
(*                                                                         *)
(* JavaScript values are modelled as records [kind, props]: kind is the    *)
(* type tag, props the own properties of an object (a function from key    *)
(* to a primitive literal, written as the source text of the literal).     *)
(***************************************************************************)
EXTENDS Integers, Sequences, FiniteSets, TLC

VARIABLES
    env,            \* process.env as read at module load
    transports,     \* the `transports` array handed to winston.createLogger
    emitted,        \* every record handed to the logger, in call order
    sinks,          \* per transport: the records it accepted, in write order
    heap,           \* the caller's objects: heap.headers, heap.body
    timers,         \* PerformanceLogger.timers (a Map): id -> start instant
    now,            \* Date.now()
    started,        \* history: per PerformanceLogger, the instant of each id's
                    \* latest startTimer that no endTimer has matched yet
    inflight,       \* requests whose 'finish' listener is registered
    proc,           \* the process: running, or exited with a code
    children,       \* the child loggers derived so far, in order of derivation
    disk,           \* per transport: its file's size and archives, and how
                    \* many of the records it accepted have been written
    tasks,          \* the calls of performHeavyOperation in progress
    last            \* the last call made: what it was given and how it ended

vars == <<env, transports, emitted, sinks, heap, timers, now, started, inflight,
          proc, children, disk, tasks, last>>

----------------------------------------------------------------------------
(* Bounds of the model *)

MaxEmit == 2        \* records emitted in one behaviour
MaxFields == 2      \* own properties of a request's headers and body together
MaxClock == 3       \* the clock's last instant
MaxRequests == 2    \* HTTP requests received in one behaviour

----------------------------------------------------------------------------
(* JavaScript values *)

EmptyProps == [k \in {} |-> ""]

Undefined == [kind |-> "undefined", props |-> EmptyProps]
Null == [kind |-> "null", props |-> EmptyProps]
Obj(p) == [kind |-> "object", props |-> p]
Str(s) == [kind |-> "string", props |-> [value |-> s]]

\* the primitives whose ToBoolean is false, as literals
FalsyLiterals == {"undefined", "null", "''", "0", "false", "NaN"}

\* ToBoolean of a property literal
TruthyLit(lit) == lit \notin FalsyLiterals

\* ToBoolean of a value: null and undefined are falsy, every object is truthy
Truthy(v) ==
    CASE v.kind \in {"undefined", "null"} -> FALSE
      [] v.kind = "string" -> v.props.value # ""
      [] OTHER -> TRUE

\* o[k] on an object: the literal of an own property, else undefined
Get(p, k) == IF k \in DOMAIN p THEN p[k] ELSE "undefined"

\* o[k] = lit
Put(p, k, lit) == [x \in DOMAIN p \cup {k} |-> IF x = k THEN lit ELSE p[x]]

\* { ...a, ...b }
Merge(a, b) ==
    [k \in DOMAIN a \cup DOMAIN b |-> IF k \in DOMAIN b THEN b[k] ELSE a[k]]

----------------------------------------------------------------------------
(* logging.config.js: levels, environment, transports *)

Levels == {"error", "warn", "info", "http", "verbose", "debug", "silly"}

MutLOG_LEVELS ==
    [error |-> 0, warn |-> 1, http |-> 2, info |-> 3,
     verbose |-> 4, debug |-> 5, silly |-> 6]

LOG_LEVELS ==
    [error |-> 0, warn |-> 1, info |-> 2, http |-> 3,
     verbose |-> 4, debug |-> 5, silly |-> 6]

Unset == "unset"

Envs ==
    [NODE_ENV : {Unset, "production", "development"},
     LOG_LEVEL : {Unset} \cup Levels,
     ENABLE_CONSOLE_LOG : {Unset, "true"},
     ENABLE_HTTP_LOG : {Unset, "true", "false"},
     SERVICE_NAME : {Unset},
     APP_VERSION : {Unset}]

\* process.env.NODE_ENV || 'development'
NODE_ENV(e) == IF e.NODE_ENV = Unset THEN "development" ELSE e.NODE_ENV

\* process.env.LOG_LEVEL || (NODE_ENV === 'production' ? 'info' : 'debug')
LOG_LEVEL(e) ==
    IF e.LOG_LEVEL # Unset THEN e.LOG_LEVEL
    ELSE IF NODE_ENV(e) = "production" THEN "info" ELSE "debug"

\* defaultMeta: { service: process.env.SERVICE_NAME || 'nodejs-app',
\*                version: process.env.APP_VERSION || '1.0.0',
\*                environment: NODE_ENV }
DefaultMeta(e) ==
    [service |-> IF e.SERVICE_NAME \in {Unset, "''"}
                 THEN "'nodejs-app'" ELSE e.SERVICE_NAME,
     version |-> IF e.APP_VERSION \in {Unset, "''"}
                 THEN "'1.0.0'" ELSE e.APP_VERSION,
     environment |-> NODE_ENV(e)]

\* maxsize: 10 * 1024 * 1024
MaxSize == 10 * 1024 * 1024

ConsoleTransport(e) ==
    [kind |-> "console", filename |-> "", level |-> LOG_LEVEL(e),
     maxsize |-> 0, maxFiles |-> 0]

FileTransport(name, lvl, keep) ==
    [kind |-> "file", filename |-> name, level |-> lvl,
     maxsize |-> MaxSize, maxFiles |-> keep]

MutTransportsHttp(e) ==
    (IF NODE_ENV(e) # "production" \/ e.ENABLE_CONSOLE_LOG = "true"
        THEN <<ConsoleTransport(e)>> ELSE <<>>)
    \o <<FileTransport("error.log", "error", 5),
         FileTransport("combined.log", LOG_LEVEL(e), 10)>>
    \o (IF e.ENABLE_HTTP_LOG # Unset
        THEN <<FileTransport("http.log", "http", 5)>> ELSE <<>>)

MutTransportsRetention(e) ==
    (IF NODE_ENV(e) # "production" \/ e.ENABLE_CONSOLE_LOG = "true"
        THEN <<ConsoleTransport(e)>> ELSE <<>>)
    \o <<FileTransport("error.log", "error", 6),
         FileTransport("combined.log", LOG_LEVEL(e), 10)>>
    \o (IF e.ENABLE_HTTP_LOG = "true"
        THEN <<FileTransport("http.log", "http", 5)>> ELSE <<>>)

MutTransportsCombined(e) ==
    (IF NODE_ENV(e) # "production" \/ e.ENABLE_CONSOLE_LOG = "true"
        THEN <<ConsoleTransport(e)>> ELSE <<>>)
    \o <<FileTransport("error.log", "error", 5),
         FileTransport("combined.log", "debug", 10)>>
    \o (IF e.ENABLE_HTTP_LOG = "true"
        THEN <<FileTransport("http.log", "http", 5)>> ELSE <<>>)

\* the transports array after module load
Transports(e) ==
    (IF NODE_ENV(e) # "production" \/ e.ENABLE_CONSOLE_LOG = "true"
        THEN <<ConsoleTransport(e)>> ELSE <<>>)
    \o <<FileTransport("error.log", "error", 5),
         FileTransport("combined.log", LOG_LEVEL(e), 10)>>
    \o (IF e.ENABLE_HTTP_LOG = "true"
        THEN <<FileTransport("http.log", "http", 5)>> ELSE <<>>)

\* a transport writes a record when its own level is at least the record's
Accepts(t, level) == LOG_LEVELS[t.level] >= LOG_LEVELS[level]

\* the metadata bound to the root logger by child(): none
RootLogger == EmptyProps

\* handle.child(meta): the metadata bound to the new handle; on every key the
\* new metadata takes the place of what the handle had bound
child(boundMeta, meta) == Merge(boundMeta, meta)

\* createChildLogger that lets moduleName take the place of additionalMeta.module
MutCreateChildLoggerModuleLast(moduleName, additionalMeta) ==
    child(RootLogger, Put(additionalMeta, "module", moduleName))

\* the metadata createChildLogger binds:
\* logger.child({ module: moduleName, ...additionalMeta })
createChildLogger(moduleName, additionalMeta) ==
    child(RootLogger, Merge([module |-> moduleName], additionalMeta))

\* the record a logger with bound metadata `bind` hands to the transports;
\* seq is the position of the call in the run
Record(bind, level, message, meta) ==
    [seq |-> Len(emitted) + 1, level |-> level, message |-> message,
     bind |-> bind, meta |-> meta]

\* the sinks with the newest record first
MutWrittenNewestFirst(sk, rec) ==
    [i \in DOMAIN sk |->
        IF Accepts(transports[i], rec.level) THEN <<rec>> \o sk[i] ELSE sk[i]]

\* the sinks after the transports have been offered a record
Written(sk, rec) ==
    [i \in DOMAIN sk |->
        IF Accepts(transports[i], rec.level) THEN Append(sk[i], rec) ELSE sk[i]]

\* logger[level](message, meta) on a logger with bound metadata `bind`
LoggerWrite(bind, level, message, meta) ==
    LET rec == Record(bind, level, message, meta) IN
    /\ emitted' = Append(emitted, rec)
    /\ sinks' = Written(sinks, rec)

----------------------------------------------------------------------------
(* The state after the modules have been loaded under environment e *)

\* the PerformanceLogger instances of the process
PerfLoggers == {"perfLogger"}

\* new Map()
NewMap == [id \in {} |-> 0]

\* this.timers of every instance after construction
NoTimers == [p \in PerfLoggers |-> NewMap]

Running == [state |-> "running", code |-> 0]

\* the log files before a write: empty, no archive
NoDisk(e) ==
    [i \in 1..Len(Transports(e)) |->
        [size |-> 0, archives |-> 0, flushed |-> 0]]

\* the calls of performHeavyOperation that can be in progress
Tasks == {"task1", "task2"}

NoTasks ==
    [t \in Tasks |->
        [pc |-> "idle", operationId |-> "", startedAt |-> 0, endedAt |-> 0,
         ret |-> [kind |-> "none", value |-> 0]]]

\* the logger and its transports as logging.config.js builds them
LoadedLogger(e) ==
    /\ env = e
    /\ transports = Transports(e)
    /\ emitted = <<>>
    /\ sinks = [i \in 1..Len(Transports(e)) |-> <<>>]

Loaded(e) ==
    /\ LoadedLogger(e)
    /\ heap = [headers |-> Obj(EmptyProps), body |-> Null]
    /\ timers = NoTimers
    /\ now = 1
    /\ started = NoTimers
    /\ inflight = {}
    /\ proc = Running
    /\ children = <<>>
    /\ disk = NoDisk(e)
    /\ tasks = NoTasks
    /\ last = [op |-> "load"]

DefaultEnv ==
    [NODE_ENV |-> Unset, LOG_LEVEL |-> Unset,
     ENABLE_CONSOLE_LOG |-> Unset, ENABLE_HTTP_LOG |-> Unset,
     SERVICE_NAME |-> Unset, APP_VERSION |-> Unset]

CanEmit(n) == Len(emitted) + n <= MaxEmit

----------------------------------------------------------------------------
(* Emission through the root logger, a child logger and DatabaseLogger *)

\* logger[level](message)
Emit(level) ==
    /\ CanEmit(1)
    /\ LoggerWrite(RootLogger, level, "message", EmptyProps)
    /\ last' = [op |-> "emit", level |-> level]
    /\ UNCHANGED <<children, disk, tasks, env, transports, heap, timers, now,
                   started, inflight, proc>>

\* createChildLogger('authentication')[level](message)
ChildEmit(level) ==
    /\ CanEmit(1)
    /\ LoggerWrite(createChildLogger("authentication", EmptyProps),
                   level, "message", EmptyProps)
    /\ last' = [op |-> "childEmit", level |-> level]
    /\ UNCHANGED <<children, disk, tasks, env, transports, heap, timers, now,
                   started, inflight, proc>>

\* `${executionTime}ms` when executionTime is truthy, else null
ExecutionTime(executionTime) ==
    IF executionTime # 0 THEN ToString(executionTime) \o "ms" ELSE "null"

\* DatabaseLogger.logQuery(query, params, executionTime), query single-spaced
DbLogQuery(executionTime) ==
    /\ CanEmit(1)
    /\ LoggerWrite(createChildLogger("database", EmptyProps), "debug",
                   "Database Query",
                   [query |-> "SELECT * FROM users WHERE id = ?",
                    executionTime |-> ExecutionTime(executionTime)])
    /\ last' = [op |-> "logQuery", level |-> "debug"]
    /\ UNCHANGED <<children, disk, tasks, env, transports, heap, timers, now,
                   started, inflight, proc>>

InitLevel == \E e \in Envs : Loaded(e)

NextLevel ==
    \/ \E level \in Levels : Emit(level)
    \/ \E level \in Levels : ChildEmit(level)
    \/ \E executionTime \in {0, 7} : DbLogQuery(executionTime)

SpecLevel == InitLevel /\ [][NextLevel]_vars

----------------------------------------------------------------------------
(* Claims about the level filter and the sink set *)

\* the order the specification states: error < warn < info < http < verbose
\* < debug < silly
SeverityOrder == <<"error", "warn", "info", "http", "verbose", "debug", "silly">>

Ordinal(level) == CHOOSE i \in 1..Len(SeverityOrder) : SeverityOrder[i] = level

AtLeastAsSevere(l1, l2) == Ordinal(l1) <= Ordinal(l2)

InSink(i, k) == \E j \in 1..Len(sinks[i]) : sinks[i][j].seq = k

\* C4: every record emitted at a level at least as severe as a sink's own
\* minimum is written to that sink, whatever the other sinks' minimums and
\* LOG_LEVEL are; an http record reaches http.log under every LOG_LEVEL.
C4_Acceptance ==
    \A i \in 1..Len(transports) : \A k \in 1..Len(emitted) :
        AtLeastAsSevere(emitted[k].level, transports[i].level) => InSink(i, k)

\* an http record was written to http.log while LOG_LEVEL resolved to a
\* minimum more severe than http
C4_Witness ==
    \E i \in 1..Len(transports) : \E k \in 1..Len(emitted) :
        /\ transports[i].filename = "http.log"
        /\ emitted[k].level = "http"
        /\ LOG_LEVEL(env) = "error"
        /\ InSink(i, k)

\* C5: a record less severe than a sink's minimum is never written to it; with
\* the minimum level info no debug emission reaches combined.log; error.log
\* holds error records only.
C5_Rejection ==
    \A i \in 1..Len(transports) :
        /\ \A j \in 1..Len(sinks[i]) :
              AtLeastAsSevere(sinks[i][j].level, transports[i].level)
        /\ (transports[i].filename = "combined.log" /\ LOG_LEVEL(env) = "info")
              => \A j \in 1..Len(sinks[i]) : sinks[i][j].level # "debug"
        /\ transports[i].filename = "error.log"
              => \A j \in 1..Len(sinks[i]) : sinks[i][j].level = "error"

\* with minimum level info, a direct, a child and a logQuery debug emission
\* have been made and combined.log is empty
C5_Witness ==
    /\ LOG_LEVEL(env) = "info"
    /\ Len(emitted) >= 2
    /\ \A k \in 1..Len(emitted) : emitted[k].level = "debug"
    /\ last.op = "logQuery"
    /\ \E k \in 1..Len(emitted) : emitted[k].bind # createChildLogger("database", EmptyProps)
    /\ \E i \in 1..Len(transports) :
          transports[i].filename = "combined.log" /\ sinks[i] = <<>>

FileSinks(name) ==
    {i \in 1..Len(transports) :
        transports[i].kind = "file" /\ transports[i].filename = name}

SinkSetOK ==
    /\ \E i \in FileSinks("error.log") : transports[i].level = "error"
    /\ \E i \in FileSinks("combined.log") : transports[i].level = LOG_LEVEL(env)
    /\ (FileSinks("http.log") # {}) <=> (env.ENABLE_HTTP_LOG = "true")

\* C6: under every environment the sink set holds error.log (minimum error)
\* and combined.log (minimum LOG_LEVEL), holds http.log exactly when
\* ENABLE_HTTP_LOG is 'true', and no step changes the sink set.
C6_SinkSet == []SinkSetOK /\ [][transports' = transports]_vars

\* records have been emitted under ENABLE_HTTP_LOG = 'false' with no http.log
C6_Witness ==
    /\ env.ENABLE_HTTP_LOG = "false"
    /\ env.NODE_ENV = "production"
    /\ Len(emitted) = MaxEmit
    /\ FileSinks("http.log") = {}
    /\ FileSinks("error.log") # {} /\ FileSinks("combined.log") # {}

----------------------------------------------------------------------------
(* logging.utils.js: APILogger and its redaction helpers.                  *)
(* A store maps the references a call can reach to objects: the caller's   *)
(* headers and body, and the object the helper builds (sanitized).         *)

REDACTED == "'[REDACTED]'"

sensitiveHeaders == <<"authorization", "cookie", "x-api-key">>

sensitiveFields == <<"password", "token", "secret", "key", "credential">>

Store(h) == [headers |-> h.headers, body |-> h.body, sanitized |-> Undefined]

\* const sanitized = arg: the helper works on the caller's object
MutSpreadCopy(st, arg) == [store |-> st, ref |-> arg]

\* const sanitized = { ...arg }: a new object with arg's own properties
\* (spreading null or undefined gives {})
SpreadCopy(st, arg) ==
    [store |-> [st EXCEPT !.sanitized = Obj(st[arg].props)], ref |-> "sanitized"]

RECURSIVE Redact(_, _, _)
\* fields.forEach(f => { if (sanitized[f]) { sanitized[f] = '[REDACTED]'; } });
\* reading a property of null or undefined throws
Redact(st, ref, fields) ==
    IF fields = <<>> THEN [store |-> st, threw |-> FALSE]
    ELSE IF st[ref].kind \in {"null", "undefined"} THEN [store |-> st, threw |-> TRUE]
    ELSE IF TruthyLit(Get(st[ref].props, Head(fields)))
         THEN Redact([st EXCEPT ![ref].props = Put(@, Head(fields), REDACTED)],
                     ref, Tail(fields))
         ELSE Redact(st, ref, Tail(fields))

\* APILogger._sanitizeHeaders(headers), headers the object at `arg`
sanitizeHeaders(st, arg) ==
    LET c == SpreadCopy(st, arg)
        r == Redact(c.store, c.ref, sensitiveHeaders)
    IN [store |-> r.store, threw |-> r.threw,
        ret |-> IF r.threw THEN Undefined ELSE r.store[c.ref]]

\* _sanitizeBody without its first line
MutSanitizeBodyNoGuard(st, arg) ==
    LET c == SpreadCopy(st, arg)
        r == Redact(c.store, c.ref, sensitiveFields)
    IN [store |-> r.store, threw |-> r.threw,
        ret |-> IF r.threw THEN Undefined ELSE r.store[c.ref]]

\* APILogger._sanitizeBody(body), body the object at `arg`
sanitizeBody(st, arg) ==
    IF ~Truthy(st[arg]) THEN [store |-> st, threw |-> FALSE, ret |-> Null]
    ELSE LET c == SpreadCopy(st, arg)
             r == Redact(c.store, c.ref, sensitiveFields)
         IN [store |-> r.store, threw |-> r.threw,
             ret |-> IF r.threw THEN Undefined ELSE r.store[c.ref]]

\* the caller's objects as the store leaves them
Callers(st) == [headers |-> st.headers, body |-> st.body]

\* a default parameter value: used when the argument is undefined
Default(v, d) == IF v.kind = "undefined" THEN d ELSE v

\* apiLogger._sanitizeHeaders(headers)
SanitizeHeadersCall ==
    LET r == sanitizeHeaders(Store(heap), "headers") IN
    /\ heap' = Callers(r.store)
    /\ last' = [op |-> "_sanitizeHeaders", arg |-> heap.headers,
                ret |-> r.ret, threw |-> r.threw]
    /\ UNCHANGED <<children, disk, tasks, env, transports, emitted, sinks,
                   timers, now, started, inflight, proc>>

\* apiLogger._sanitizeBody(body)
SanitizeBodyCall ==
    LET r == sanitizeBody(Store(heap), "body") IN
    /\ heap' = Callers(r.store)
    /\ last' = [op |-> "_sanitizeBody", arg |-> heap.body,
                ret |-> r.ret, threw |-> r.threw]
    /\ UNCHANGED <<children, disk, tasks, env, transports, emitted, sinks,
                   timers, now, started, inflight, proc>>

\* new APILogger('external-service').logRequest('POST', url, headers, body),
\* headers = {} and body = null by default
LogRequest ==
    LET st0 == [headers |-> Default(heap.headers, Obj(EmptyProps)),
                body |-> Default(heap.body, Null),
                sanitized |-> Undefined]
        h == sanitizeHeaders(st0, "headers")
        b == sanitizeBody([h.store EXCEPT !.sanitized = Undefined], "body")
        threw == h.threw \/ b.threw
        after == [headers |-> IF heap.headers.kind = "undefined"
                              THEN heap.headers ELSE b.store.headers,
                  body |-> IF heap.body.kind = "undefined"
                           THEN heap.body ELSE b.store.body]
    IN
    /\ CanEmit(1)
    /\ IF threw
          THEN UNCHANGED <<emitted, sinks>>
          ELSE LoggerWrite(createChildLogger("api", [service |-> "external-service"]),
                           "http", "API Request",
                           [method |-> "POST", url |-> "/endpoint",
                            headers |-> h.ret, body |-> b.ret])
    /\ heap' = after
    /\ last' = [op |-> "logRequest", arg |-> heap, threw |-> threw]
    /\ UNCHANGED <<children, disk, tasks, env, transports, timers, now,
                   started, inflight, proc>>

HeaderKeys == {"authorization", "cookie", "x-api-key", "Content-Type"}

BodyKeys == {"password", "token", "secret", "key", "credential", "username"}

\* property values: the falsy primitives and a non-empty string
Literals == {"''", "0", "false", "null", "'abc123'"}

\* the objects with exactly n own properties, their keys among `keys`
ObjectsOver(keys, n) ==
    UNION {[D -> Literals] : D \in {S \in SUBSET keys : Cardinality(S) = n}}

\* a request's headers and body: absent, or objects of MaxFields properties
\* together
Requests ==
    UNION {
        {[headers |-> h, body |-> b] :
            h \in {Obj(p) : p \in ObjectsOver(HeaderKeys, n)}
                  \cup (IF n = 0 THEN {Undefined, Null} ELSE {}),
            b \in UNION {{Obj(p) : p \in ObjectsOver(BodyKeys, m)}
                         \cup (IF m = 0 THEN {Undefined, Null} ELSE {})
                         : m \in 0..(MaxFields - n)}}
        : n \in 0..MaxFields}

InitRedact ==
    \E rq \in Requests :
        /\ LoadedLogger(DefaultEnv)
        /\ heap = rq
        /\ timers = NoTimers /\ now = 1 /\ started = NoTimers
        /\ inflight = {} /\ proc = Running /\ last = [op |-> "load"]
        /\ children = <<>> /\ disk = NoDisk(DefaultEnv) /\ tasks = NoTasks

NextRedact ==
    \/ SanitizeHeadersCall
    \/ SanitizeBodyCall
    \/ LogRequest

SpecRedact == InitRedact /\ [][NextRedact]_vars

----------------------------------------------------------------------------
(* Claims about redaction *)

Range(seq) == {seq[i] : i \in 1..Len(seq)}

SanitizeOps == {"_sanitizeHeaders", "_sanitizeBody"}

DenyList(op) ==
    IF op = "_sanitizeHeaders" THEN Range(sensitiveHeaders) ELSE Range(sensitiveFields)

\* C1: the output of _sanitizeHeaders and _sanitizeBody maps every deny-listed
\* key present in the input to '[REDACTED]', whatever its value (falsy values
\* included), and every other key to the input's value.
C1_Redaction ==
    (last.op \in SanitizeOps /\ last.arg.kind = "object") =>
        /\ ~last.threw
        /\ last.ret.kind = "object"
        /\ DOMAIN last.ret.props = DOMAIN last.arg.props
        /\ \A k \in DOMAIN last.arg.props :
              last.ret.props[k] =
                  IF k \in DenyList(last.op) THEN REDACTED ELSE last.arg.props[k]

\* C2: no call of _sanitizeHeaders, _sanitizeBody or logRequest changes the
\* caller's headers or body: same keys, same values, deny-listed ones included.
C2_NoMutation == [][heap' = heap]_vars

\* logRequest has logged redacted headers and body, and the caller's objects
\* still hold the secrets
C2_Witness ==
    /\ last.op = "logRequest"
    /\ heap.headers.kind = "object" /\ heap.body.kind = "object"
    /\ Get(heap.headers.props, "authorization") = "'abc123'"
    /\ Get(heap.body.props, "password") = "'abc123'"
    /\ Len(emitted) >= 1
    /\ emitted[Len(emitted)].meta.headers.props["authorization"] = REDACTED
    /\ emitted[Len(emitted)].meta.body.props["password"] = REDACTED

AbsentOrEmpty(v) ==
    \/ v.kind \in {"null", "undefined"}
    \/ v.kind = "object" /\ DOMAIN v.props = {}

\* C3 as stated: _sanitizeBody and _sanitizeHeaders return an empty mapping for
\* absent (null, undefined) or empty input and never raise.
C3_EmptyMapping ==
    (last.op \in SanitizeOps /\ AbsentOrEmpty(last.arg)) =>
        ~last.threw /\ last.ret = Obj(EmptyProps)

\* C3 amended: neither helper raises; _sanitizeHeaders returns an empty mapping
\* for absent or empty headers; _sanitizeBody returns an empty mapping for an
\* empty mapping and null for an absent body.
C3_EmptyResult ==
    (last.op \in SanitizeOps /\ AbsentOrEmpty(last.arg)) =>
        /\ ~last.threw
        /\ last.ret = IF last.op = "_sanitizeBody" /\ last.arg.kind # "object"
                      THEN Null ELSE Obj(EmptyProps)

\* _sanitizeBody was called with an absent body and returned null
C3_Witness ==
    /\ last.op = "_sanitizeBody"
    /\ last.arg = Undefined
    /\ last.ret = Null
    /\ ~last.threw

----------------------------------------------------------------------------
(* logging.utils.js: PerformanceLogger.                                    *)
(* Date.now() is the number of milliseconds since 1970: positive, and      *)
(* taken here as never running backwards.                                  *)

Num(n) == [kind |-> "number", value |-> n]

NullResult == [kind |-> "null", value |-> 0]

NaNResult == [kind |-> "NaN", value |-> 0]

\* map.delete(k)
MapDelete(m, k) == [x \in DOMAIN m \ {k} |-> m[x]]

\* `${duration}ms`
Ms(duration) == ToString(duration) \o "ms"

\* startTimer that keeps the first start of an id
MutStartTimerKeepsFirst(tm, operationId, t) ==
    IF operationId \in DOMAIN tm THEN tm ELSE Put(tm, operationId, t)

\* PerformanceLogger.startTimer(operationId) at instant t, on the Map tm
startTimer(tm, operationId, t) == Put(tm, operationId, t)

\* endTimer without `if (startTime)`
MutEndTimerNoGuard(tm, operationId, t, additionalData) ==
    IF operationId \in DOMAIN tm
    THEN [timers |-> MapDelete(tm, operationId),
          logged |-> <<Merge([operation |-> operationId,
                              duration |-> Ms(t - tm[operationId])],
                             additionalData)>>,
          ret |-> Num(t - tm[operationId])]
    ELSE [timers |-> tm,
          logged |-> <<Merge([operation |-> operationId, duration |-> "NaNms"],
                             additionalData)>>,
          ret |-> NaNResult]

\* PerformanceLogger.endTimer(operationId, additionalData) at instant t, on
\* the Map tm: the Map afterwards, the metadata logged, the value returned
endTimer(tm, operationId, t, additionalData) ==
    IF operationId \in DOMAIN tm /\ tm[operationId] # 0
    THEN [timers |-> MapDelete(tm, operationId),
          logged |-> <<Merge([operation |-> operationId,
                              duration |-> Ms(t - tm[operationId])],
                             additionalData)>>,
          ret |-> Num(t - tm[operationId])]
    ELSE [timers |-> tm, logged |-> <<>>, ret |-> NullResult]

OperationIds == {"'op1'", "'op2'"}

AdditionalData == {EmptyProps, [dataSize |-> "3"]}

\* startTimer on a registry that every instance shares
MutStartTimerShared(p, operationId) ==
    /\ timers' = [q \in DOMAIN timers |-> startTimer(timers[q], operationId, now)]
    /\ started' = [started EXCEPT ![p] = Put(@, operationId, now)]
    /\ last' = [op |-> "startTimer", logger |-> p, id |-> operationId, at |-> now]
    /\ UNCHANGED <<children, disk, tasks, env, transports, emitted, sinks, heap,
                   now, inflight, proc>>

\* perfLogger.startTimer(operationId)
StartTimer(p, operationId) ==
    /\ timers' = [timers EXCEPT ![p] = startTimer(@, operationId, now)]
    /\ started' = [started EXCEPT ![p] = Put(@, operationId, now)]
    /\ last' = [op |-> "startTimer", logger |-> p, id |-> operationId, at |-> now]
    /\ UNCHANGED <<children, disk, tasks, env, transports, emitted, sinks,
                   heap, now, inflight, proc>>

\* perfLogger.endTimer(operationId, additionalData)
EndTimer(p, operationId, additionalData) ==
    LET r == endTimer(timers[p], operationId, now, additionalData) IN
    /\ r.logged # <<>> => CanEmit(1)
    /\ IF r.logged # <<>>
          THEN LoggerWrite(createChildLogger("performance", EmptyProps),
                           "verbose", "Performance Timer", r.logged[1])
          ELSE UNCHANGED <<emitted, sinks>>
    /\ timers' = [timers EXCEPT ![p] = r.timers]
    /\ started' = [started EXCEPT ![p] = MapDelete(@, operationId)]
    /\ last' = [op |-> "endTimer", logger |-> p, id |-> operationId, at |-> now,
                ret |-> r.ret, timersBefore |-> timers,
                startedBefore |-> started, emittedBefore |-> Len(emitted)]
    /\ UNCHANGED <<children, disk, tasks, env, transports, heap, now,
                   inflight, proc>>

\* time passes
Tick ==
    /\ now < MaxClock
    /\ now' = now + 1
    /\ UNCHANGED <<children, disk, tasks, env, transports, emitted, sinks,
                   heap, timers, started,
                   inflight, proc, last>>

InitTimer == Loaded(DefaultEnv)

NextTimer ==
    \/ \E p \in PerfLoggers : \E id \in OperationIds : StartTimer(p, id)
    \/ \E p \in PerfLoggers : \E id \in OperationIds : \E data \in AdditionalData :
          EndTimer(p, id, data)
    \/ Tick

SpecTimer == InitTimer /\ [][NextTimer]_vars

----------------------------------------------------------------------------
(* Claims about the timers *)

Outstanding(l) == l.id \in DOMAIN l.startedBefore[l.logger]

\* C9: endTimer(id) with no unmatched startTimer(id) before it (never started,
\* or already ended) returns null, emits no record and leaves the registry as
\* it was for every id.
C9_EndWithoutStart ==
    (last.op = "endTimer" /\ ~Outstanding(last)) =>
        /\ last.ret.kind = "null"
        /\ Len(emitted) = last.emittedBefore
        /\ timers = last.timersBefore

\* endTimer of an id that was timed and ended before returned null while
\* another id's timer stays in the registry
C9_Witness ==
    /\ last.op = "endTimer" /\ ~Outstanding(last)
    /\ last.ret.kind = "null"
    /\ \E k \in 1..Len(emitted) : emitted[k].meta.operation = last.id
    /\ timers[last.logger] # NewMap

\* C10: startTimer(id) followed by endTimer(id) returns the duration (clock at
\* end - clock at start), which is >= 0, emits exactly one verbose 'Performance
\* Timer' record and removes the entry of id; the registry holds exactly the
\* ids started and not yet ended.
C10_RoundTrip ==
    /\ timers = started
    /\ (last.op = "endTimer" /\ Outstanding(last)) =>
          /\ last.ret.kind = "number"
          /\ last.ret.value = last.at - last.startedBefore[last.logger][last.id]
          /\ last.ret.value >= 0
          /\ Len(emitted) = last.emittedBefore + 1
          /\ emitted[Len(emitted)].level = "verbose"
          /\ emitted[Len(emitted)].message = "Performance Timer"
          /\ emitted[Len(emitted)].meta.operation = last.id
          /\ last.id \notin DOMAIN timers[last.logger]
          /\ \A id \in DOMAIN timers[last.logger] :
                timers[last.logger][id] = last.timersBefore[last.logger][id]

\* at instant 3 an id was ended with duration 1 while the other id is still
\* being timed
C10_Witness ==
    /\ last.op = "endTimer" /\ Outstanding(last)
    /\ last.ret.kind = "number" /\ last.ret.value = 1 /\ last.at = 3
    /\ DOMAIN timers[last.logger] = OperationIds \ {last.id}

----------------------------------------------------------------------------
(* logging.config.js: httpLoggerMiddleware *)

\* Math.random().toString(36).substr(2, 9): some short token
Tokens == {"'k3j9x2m1q'", "'p0q2a7z5c'"}

\* req.headers['x-request-id']
RequestIdHeaders == {"undefined", "''", "'req-1'"}

\* a || b
OrElse(a, b) == IF TruthyLit(a) THEN a ELSE b

Received == Cardinality({k \in 1..Len(emitted) : emitted[k].message = "HTTP Request"})

\* httpLoggerMiddleware(req, res, next): logs the request and registers the
\* 'finish' listener, which closes over req and start
HttpRequest(xRequestId, token) ==
    /\ Received < MaxRequests
    /\ LoggerWrite(RootLogger, "http", "HTTP Request",
                   [method |-> "'GET'", url |-> "'/api/users/1'",
                    userAgent |-> "'curl'", ip |-> "'10.0.0.1'",
                    requestId |-> OrElse(xRequestId, token)])
    /\ inflight' = inflight \cup
          {[reqSeq |-> Len(emitted) + 1, start |-> now, xRequestId |-> xRequestId]}
    /\ last' = [op |-> "request", xRequestId |-> xRequestId, token |-> token]
    /\ UNCHANGED <<children, disk, tasks, env, transports, heap, timers, now,
                   started, proc>>

\* the 'finish' listener of a response
Finish(r) ==
    /\ LoggerWrite(RootLogger, "http", "HTTP Response",
                   [method |-> "'GET'", url |-> "'/api/users/1'",
                    statusCode |-> "200", duration |-> Ms(now - r.start),
                    requestId |-> r.xRequestId])
    /\ inflight' = inflight \ {r}
    /\ last' = [op |-> "finish", xRequestId |-> r.xRequestId,
                reqSeq |-> r.reqSeq, resSeq |-> Len(emitted) + 1]
    /\ UNCHANGED <<children, disk, tasks, env, transports, heap, timers, now,
                   started, proc>>

InitHttp == Loaded(DefaultEnv)

NextHttp ==
    \/ \E x \in RequestIdHeaders : \E token \in Tokens : HttpRequest(x, token)
    \/ \E r \in inflight : Finish(r)
    \/ Tick

SpecHttp == InitHttp /\ [][NextHttp]_vars

\* C7: a request/response pair gives two http records, 'HTTP Request' then
\* 'HTTP Response', carrying the same request identifier: the x-request-id
\* header when the caller sent one, else one generated token in both.
C7_Correlated ==
    last.op = "finish" =>
        LET req == emitted[last.reqSeq]
            res == emitted[last.resSeq]
        IN /\ last.reqSeq < last.resSeq
           /\ req.level = "http" /\ req.message = "HTTP Request"
           /\ res.level = "http" /\ res.message = "HTTP Response"
           /\ req.meta.requestId = res.meta.requestId
           /\ IF TruthyLit(last.xRequestId)
                 THEN req.meta.requestId = last.xRequestId
                 ELSE req.meta.requestId \in Tokens

----------------------------------------------------------------------------
(* logStructuredError, logError and the process-level hooks *)

\* new Date().toISOString()
ISOString(t) == "1970-01-01T00:00:00." \o ToString(t) \o "Z"

\* v.k for a value that is neither null nor undefined
GetProp(v, k) == IF v.kind = "object" THEN Get(v.props, k) ELSE "undefined"

\* reading a property of null or undefined throws a TypeError
ThrowsOnRead(v) == v.kind \in {"null", "undefined"}

TypeErrorObj ==
    Obj([message |-> "'Cannot read properties of undefined'",
         name |-> "'TypeError'", stack |-> "'TypeError: ...'"])

\* logStructuredError(error, context) at instant t: whether it threw, and the
\* errorDetails it logged and returned
logStructuredError(error, context, t) ==
    IF ThrowsOnRead(error) THEN [threw |-> TRUE, logged |-> <<>>]
    ELSE [threw |-> FALSE,
          logged |-> <<[message |-> GetProp(error, "message"),
                        name |-> GetProp(error, "name"),
                        stack |-> GetProp(error, "stack"),
                        code |-> GetProp(error, "code"),
                        statusCode |-> GetProp(error, "statusCode"),
                        context |-> context,
                        timestamp |-> ISOString(t)]>>]

\* logError(error, context) of logging.config.js
logError(error, context) ==
    IF ThrowsOnRead(error) THEN [threw |-> TRUE, logged |-> <<>>]
    ELSE [threw |-> FALSE,
          logged |-> <<[error |-> [message |-> GetProp(error, "message"),
                                   stack |-> GetProp(error, "stack"),
                                   name |-> GetProp(error, "name")],
                        context |-> context]>>]

\* what can be thrown or rejected with
ErrorValues ==
    {Undefined, Null, Str("oops"), Obj(EmptyProps),
     Obj([message |-> "'boom'", name |-> "'Error'", stack |-> "'Error: boom'"]),
     Obj([message |-> "'refused'", name |-> "'Error'", stack |-> "'Error: refused'",
          code |-> "'ECONNREFUSED'", statusCode |-> "503"])}

Contexts == {EmptyProps, [route |-> "'/api/users/:id'"]}

Exited(code) == [state |-> "exited", code |-> code]

\* logStructuredError(error, context) called from a catch block
LogStructuredErrorCall(error, context) ==
    LET r == logStructuredError(error, context, now) IN
    /\ proc.state = "running"
    /\ CanEmit(1)
    /\ IF r.threw THEN UNCHANGED <<emitted, sinks>>
       ELSE LoggerWrite(RootLogger, "error", "Structured Error", r.logged[1])
    /\ last' = [op |-> "logStructuredError", arg |-> error, threw |-> r.threw]
    /\ UNCHANGED <<children, disk, tasks, env, transports, heap, timers, now,
                   started, inflight, proc>>

\* logError(error, context)
LogErrorCall(error, context) ==
    LET r == logError(error, context) IN
    /\ proc.state = "running"
    /\ CanEmit(1)
    /\ IF r.threw THEN UNCHANGED <<emitted, sinks>>
       ELSE LoggerWrite(RootLogger, "error", "Application Error", r.logged[1])
    /\ last' = [op |-> "logError", arg |-> error, threw |-> r.threw]
    /\ UNCHANGED <<children, disk, tasks, env, transports, heap, timers, now,
                   started, inflight, proc>>

\* process.on('uncaughtException', ...): logs the error, then process.exit(1);
\* an exception thrown by the handler itself ends the process with code 7
UncaughtException(error) ==
    LET r == logStructuredError(error, [type |-> "'uncaughtException'"], now) IN
    /\ proc.state = "running"
    /\ CanEmit(1)
    /\ IF r.threw THEN UNCHANGED <<emitted, sinks>>
       ELSE LoggerWrite(RootLogger, "error", "Structured Error", r.logged[1])
    /\ proc' = IF r.threw THEN Exited(7) ELSE Exited(1)
    /\ last' = [op |-> "uncaughtException", arg |-> error, threw |-> r.threw]
    /\ UNCHANGED <<children, disk, tasks, env, transports, heap, timers, now,
                   started, inflight>>

\* process.on('unhandledRejection', ...): logs the reason; an exception thrown
\* by the handler is uncaught and goes to the 'uncaughtException' listener,
\* which logs that TypeError and exits
UnhandledRejection(reason) ==
    LET ctx == [type |-> "'unhandledRejection'", promise |-> "'[object Promise]'"]
        r == logStructuredError(reason, ctx, now)
        u == logStructuredError(TypeErrorObj, [type |-> "'uncaughtException'"], now)
    IN
    /\ proc.state = "running"
    /\ CanEmit(1)
    /\ LoggerWrite(RootLogger, "error", "Structured Error",
                   IF r.threw THEN u.logged[1] ELSE r.logged[1])
    /\ proc' = IF r.threw THEN Exited(1) ELSE proc
    /\ last' = [op |-> "unhandledRejection", arg |-> reason, threw |-> r.threw]
    /\ UNCHANGED <<children, disk, tasks, env, transports, heap, timers, now,
                   started, inflight>>

InitErr == Loaded(DefaultEnv)

NextErr ==
    \/ \E error \in ErrorValues : \E context \in Contexts :
          LogStructuredErrorCall(error, context)
    \/ \E error \in ErrorValues : \E context \in Contexts :
          LogErrorCall(error, context)
    \/ \E error \in ErrorValues : UncaughtException(error)
    \/ \E reason \in ErrorValues : UnhandledRejection(reason)
    \/ Tick

SpecErr == InitErr /\ [][NextErr]_vars

LoggingCalls ==
    {"logStructuredError", "logError", "uncaughtException", "unhandledRejection"}

\* C8: logStructuredError and logError return normally for every error
\* argument (undefined, null and non-Error rejection reasons included) and
\* every context: a logging call never raises.
C8_NeverRaises == last.op \in LoggingCalls => ~last.threw

----------------------------------------------------------------------------
(* logHealthCheck *)

\* status === 'healthy' ? 'info' : 'error' with a truthiness test instead
MutHealthLevelTruthy(status) == IF TruthyLit(status) THEN "info" ELSE "error"

\* const level = status === 'healthy' ? 'info' : 'error'
HealthLevel(status) == IF status = "'healthy'" THEN "info" ELSE "error"

\* the statuses a health check is reported with: the string 'healthy', other
\* strings, other casings, no status, values that are not strings
Statuses ==
    {"'healthy'", "'unhealthy'", "'Healthy'", "'HEALTHY'", "undefined", "true", "1"}

Services == {"'database'", "'cache'"}

HealthDetails == {Undefined, Obj([responseTime |-> "'5ms'"])}

\* logHealthCheck(service, status, details = {})
LogHealthCheck(service, status, details) ==
    LET d == IF details.kind = "undefined" THEN Obj(EmptyProps) ELSE details IN
    /\ CanEmit(1)
    /\ LoggerWrite(RootLogger, HealthLevel(status), "Health Check",
                   [service |-> service, status |-> status, details |-> d,
                    timestamp |-> ISOString(now)])
    /\ last' = [op |-> "logHealthCheck", service |-> service, status |-> status,
                emittedBefore |-> emitted]
    /\ UNCHANGED <<children, disk, tasks, env, transports, heap, timers, now,
                   started, inflight, proc>>

InitHealth == Loaded(DefaultEnv)

NextHealth ==
    \/ \E service \in Services : \E status \in Statuses :
       \E details \in HealthDetails : LogHealthCheck(service, status, details)
    \/ Tick

SpecHealth == InitHealth /\ [][NextHealth]_vars

\* C11: logHealthCheck emits exactly one record, at level info when the
\* status is exactly the string 'healthy' and at level error for every other
\* status: absent, differently cased, or not a string.
C11_HealthSeverity ==
    last.op = "logHealthCheck" =>
        /\ Len(emitted) = Len(last.emittedBefore) + 1
        /\ SubSeq(emitted, 1, Len(last.emittedBefore)) = last.emittedBefore
        /\ emitted[Len(emitted)].message = "Health Check"
        /\ emitted[Len(emitted)].meta.status = last.status
        /\ emitted[Len(emitted)].level = "info" <=> last.status = "'healthy'"
        /\ emitted[Len(emitted)].level = "error" <=> last.status # "'healthy'"

\* a health check reported as 'Healthy' was emitted at level error after one
\* reported as 'healthy' was emitted at level info
C11_Witness ==
    /\ last.op = "logHealthCheck" /\ last.status = "'Healthy'"
    /\ Len(emitted) = 2
    /\ emitted[1].level = "info" /\ emitted[1].meta.status = "'healthy'"
    /\ emitted[2].level = "error"

----------------------------------------------------------------------------
(* Derivation of child loggers *)

MaxChildren == 2

ModuleTags == {"'users-api'", "'audit'"}

\* the additionalMeta a child logger is created with
AdditionalMeta ==
    {EmptyProps, [domain |-> "'orders'"], [module |-> "'legacy'"]}

\* const c = createChildLogger(moduleName, additionalMeta): derived from the
\* root logger
CreateChildLogger(moduleName, additionalMeta) ==
    /\ Len(children) < MaxChildren
    /\ children' = Append(children,
                          [bind |-> createChildLogger(moduleName, additionalMeta),
                           chain |-> <<moduleName>>,
                           extra |-> additionalMeta,
                           parent |-> 0])
    /\ last' = [op |-> "createChildLogger"]
    /\ UNCHANGED <<disk, tasks, env, transports, emitted, sinks, heap, timers,
                   now, started, inflight, proc>>

\* const g = c.child({ module: moduleName }): derived from the child logger c
Child(c, moduleName) ==
    /\ Len(children) < MaxChildren
    /\ children' = Append(children,
                          [bind |-> child(children[c].bind, [module |-> moduleName]),
                           chain |-> Append(children[c].chain, moduleName),
                           extra |-> children[c].extra,
                           parent |-> c])
    /\ last' = [op |-> "child"]
    /\ UNCHANGED <<disk, tasks, env, transports, emitted, sinks, heap, timers,
                   now, started, inflight, proc>>

\* c.info(message)
ChildLog(c) ==
    /\ CanEmit(1)
    /\ LoggerWrite(children[c].bind, "info", "message", EmptyProps)
    /\ last' = [op |-> "childLog", handle |-> c]
    /\ UNCHANGED <<children, disk, tasks, env, transports, heap, timers, now,
                   started, inflight, proc>>

InitChild == Loaded(DefaultEnv)

NextChild ==
    \/ \E moduleName \in ModuleTags : \E additionalMeta \in AdditionalMeta :
          CreateChildLogger(moduleName, additionalMeta)
    \/ \E c \in DOMAIN children : \E moduleName \in ModuleTags : Child(c, moduleName)
    \/ \E c \in DOMAIN children : ChildLog(c)

SpecChild == InitChild /\ [][NextChild]_vars

\* the module tags a record carries, in order
RecordTags(rec) ==
    IF "module" \in DOMAIN rec.bind THEN <<rec.bind.module>> ELSE <<>>

LastRecord == emitted[Len(emitted)]

EffectiveTag(h) ==
    IF Len(h.chain) = 1 /\ "module" \in DOMAIN h.extra
    THEN h.extra.module
    ELSE h.chain[Len(h.chain)]

----------------------------------------------------------------------------
(* The service identity on the records of the root logger, the child loggers
   and the domain wrappers *)

\* new APILogger(serviceName).logResponse(status), data = null and
\* duration = null by default
ApiLogResponse(serviceName, status) ==
    /\ CanEmit(1)
    /\ LoggerWrite(createChildLogger("api", [service |-> serviceName]),
                   "http", "API Response",
                   [status |-> status, duration |-> "null", dataSize |-> "0"])
    /\ last' = [op |-> "logResponse"]
    /\ UNCHANGED <<children, disk, tasks, env, transports, heap, timers, now,
                   started, inflight, proc>>

\* new SecurityLogger().logAuthAttempt(userId, success, ip, userAgent)
SecLogAuthAttempt(success) ==
    /\ CanEmit(1)
    /\ LoggerWrite(createChildLogger("security", EmptyProps),
                   IF TruthyLit(success) THEN "info" ELSE "warn",
                   "Authentication Attempt",
                   [userId |-> "'alice'", success |-> success,
                    ip |-> "'10.0.0.1'", userAgent |-> "'curl'",
                    timestamp |-> ISOString(now)])
    /\ last' = [op |-> "logAuthAttempt"]
    /\ UNCHANGED <<children, disk, tasks, env, transports, heap, timers, now,
                   started, inflight, proc>>

\* new BusinessLogger(domain).logEvent(eventName), eventData = {} by default
BusinessLogEvent(domain) ==
    /\ CanEmit(1)
    /\ LoggerWrite(createChildLogger("business", [domain |-> domain]),
                   "info", "Business Event",
                   [event |-> "'order_created'", data |-> Obj(EmptyProps),
                    timestamp |-> ISOString(now)])
    /\ last' = [op |-> "logEvent"]
    /\ UNCHANGED <<children, disk, tasks, env, transports, heap, timers, now,
                   started, inflight, proc>>

\* the metadata of logMemoryUsage, for a process of constant size
MemoryUsage ==
    [rss |-> "'50 MB'", heapTotal |-> "'20 MB'", heapUsed |-> "'10 MB'",
     external |-> "'1 MB'"]

\* perfLogger.logMemoryUsage()
LogMemoryUsage ==
    /\ CanEmit(1)
    /\ LoggerWrite(createChildLogger("performance", EmptyProps),
                   "debug", "Memory Usage", MemoryUsage)
    /\ last' = [op |-> "logMemoryUsage"]
    /\ UNCHANGED <<children, disk, tasks, env, transports, heap, timers, now,
                   started, inflight, proc>>

\* the environments a process is started in, as far as the identity goes
IdentityEnvs ==
    {[DefaultEnv EXCEPT !.NODE_ENV = n, !.SERVICE_NAME = s, !.APP_VERSION = v] :
        n \in {Unset, "production"}, s \in {Unset, "'billing'"},
        v \in {Unset, "'2.3.1'"}}

InitIdentity == \E e \in IdentityEnvs : Loaded(e)

NextIdentity ==
    \/ \E level \in {"info", "error"} : Emit(level)
    \/ \E level \in {"info", "error"} : ChildEmit(level)
    \/ DbLogQuery(12)
    \/ ApiLogResponse("'external-service'", "200")
    \/ \E success \in {"true", "false"} : SecLogAuthAttempt(success)
    \/ BusinessLogEvent("'order-management'")
    \/ LogMemoryUsage
    \/ \E service \in Services : \E status \in {"'healthy'", "'unhealthy'"} :
          LogHealthCheck(service, status, Undefined)

SpecIdentity == InitIdentity /\ [][NextIdentity]_vars

\* the top-level fields of a record as written: the identity, the metadata
\* bound to the handle and the caller's metadata merged at the top level, the
\* caller's metadata last; the identity and the bound metadata in either order
TopLevelFields(rec) ==
    {Merge(rec.bind, Merge(DefaultMeta(env), rec.meta)),
     Merge(DefaultMeta(env), Merge(rec.bind, rec.meta))}

\* C13: every record of the root logger, of a child logger and of a domain
\* wrapper carries the service name, version and environment fixed at
\* startup; nothing a caller passes changes the service name on a record.
C13_ServiceIdentity ==
    \A k \in 1..Len(emitted) : \A f \in TopLevelFields(emitted[k]) :
        /\ f.service = DefaultMeta(env).service
        /\ f.version = DefaultMeta(env).version
        /\ f.environment = DefaultMeta(env).environment

----------------------------------------------------------------------------
(* The files behind the transports: completion of writes, rotation *)

Min(a, b) == IF a <= b THEN a ELSE b

\* the file of transport t after `bytes` more have been written to it: when
\* the size exceeds maxsize the file is archived and a fresh one started, and
\* the archives beyond maxFiles are deleted
DiskAfter(d, t, bytes) ==
    IF t.kind = "file" /\ d.size + bytes > t.maxsize
    THEN [d EXCEPT !.size = 0, !.archives = Min(d.archives + 1, t.maxFiles)]
    ELSE [d EXCEPT !.size = d.size + bytes]

\* the size of a record's serialized line
SerializedSize(rec) == 64 * (4 + Cardinality(DOMAIN rec.bind \cup DOMAIN rec.meta))

\* what has been written to the file or stream of transport i, in order
Content(i) == SubSeq(sinks[i], 1, disk[i].flushed)

\* the write of the oldest record transport i has accepted and not yet
\* written completes
WriteCompleted(i) ==
    /\ disk[i].flushed < Len(sinks[i])
    /\ disk' = [disk EXCEPT ![i] =
                  [DiskAfter(@, transports[i],
                             SerializedSize(sinks[i][disk[i].flushed + 1]))
                   EXCEPT !.flushed = @ + 1]]
    /\ last' = [op |-> "writeCompleted", sink |-> i]
    /\ UNCHANGED <<children, tasks, env, transports, emitted, sinks, heap,
                   timers, now, started, inflight, proc>>

OrderEnvs ==
    {[DefaultEnv EXCEPT !.LOG_LEVEL = l, !.ENABLE_HTTP_LOG = h] :
        l \in {Unset, "warn"}, h \in {Unset, "true"}}

InitOrder == \E e \in OrderEnvs : Loaded(e)

NextOrder ==
    \/ \E level \in {"error", "info", "http"} : Emit(level)
    \/ \E i \in DOMAIN transports : WriteCompleted(i)

SpecOrder == InitOrder /\ [][NextOrder]_vars

----------------------------------------------------------------------------
(* The uncaught-exception hook *)

\* C15: when the process ends through the uncaught-exception hook, an
\* error-level 'Structured Error' record for that failure has been emitted
\* and handed to error.log: the process never exits without it.
C15_LoggedBeforeExit ==
    (last.op = "uncaughtException" /\ proc.state = "exited") =>
        \E k \in 1..Len(emitted) :
            /\ emitted[k].level = "error"
            /\ emitted[k].message = "Structured Error"
            /\ emitted[k].meta.context = [type |-> "'uncaughtException'"]
            /\ emitted[k].meta.message = GetProp(last.arg, "message")
            /\ \A i \in FileSinks("error.log") : InSink(i, k)

----------------------------------------------------------------------------
(* Rotation of the log files *)

\* the serialized sizes of the writes, in bytes
WriteSizes == {4 * 1024 * 1024, 7 * 1024 * 1024}

\* the File transport i writes `bytes` of serialized records to its file
FileWrite(i, bytes) ==
    /\ transports[i].kind = "file"
    /\ disk' = [disk EXCEPT ![i] = DiskAfter(@, transports[i], bytes)]
    /\ last' = [op |-> "fileWrite", sink |-> i, bytes |-> bytes,
                before |-> disk[i]]
    /\ UNCHANGED <<children, tasks, env, transports, emitted, sinks, heap,
                   timers, now, started, inflight, proc>>

RotateEnvs ==
    {[DefaultEnv EXCEPT !.NODE_ENV = n, !.ENABLE_HTTP_LOG = "true"] :
        n \in {Unset, "production"}}

InitRotate == \E e \in RotateEnvs : Loaded(e)

NextRotate == \E i \in DOMAIN transports : \E bytes \in WriteSizes : FileWrite(i, bytes)

SpecRotate == InitRotate /\ [][NextRotate]_vars

\* the retention counts of the file sinks
RetentionCount(name) ==
    CASE name = "error.log" -> 5
      [] name = "http.log" -> 5
      [] name = "combined.log" -> 10

TenMB == 10 * 1024 * 1024

\* C16: every file sink's maximum is 10MB; a write that takes the cumulative
\* size of the file over 10MB rotates it, so that no write starts on a file
\* over the limit; and the archives kept never exceed 5 for error.log and
\* http.log, 10 for combined.log.
C16_RotationBound ==
    /\ \A i \in DOMAIN transports :
          transports[i].kind = "file" =>
              /\ transports[i].maxsize = TenMB
              /\ disk[i].size <= TenMB
              /\ disk[i].archives <= RetentionCount(transports[i].filename)
    /\ (last.op = "fileWrite" /\ last.before.size + last.bytes > TenMB) =>
          /\ disk[last.sink].size = 0
          /\ disk[last.sink].archives =
                Min(last.before.archives + 1,
                    RetentionCount(transports[last.sink].filename))

\* combined.log rotated with 10 archives kept already, and error.log holds 5
C16_Witness ==
    /\ last.op = "fileWrite"
    /\ last.sink \in FileSinks("combined.log")
    /\ last.before.archives = 10
    /\ last.before.size + last.bytes > TenMB
    /\ disk[last.sink].archives = 10
    /\ \E i \in FileSinks("error.log") : disk[i].archives = 5

----------------------------------------------------------------------------
(* Two PerformanceLogger instances in one process *)

\* const perfLogger = new PerformanceLogger(), twice
TwoPerfLoggers == {"perfLogger", "otherPerfLogger"}

InitInstances ==
    /\ LoadedLogger(DefaultEnv)
    /\ heap = [headers |-> Obj(EmptyProps), body |-> Null]
    /\ timers = [p \in TwoPerfLoggers |-> NewMap]
    /\ started = [p \in TwoPerfLoggers |-> NewMap]
    /\ now = 1 /\ inflight = {} /\ proc = Running /\ children = <<>>
    /\ disk = NoDisk(DefaultEnv) /\ tasks = NoTasks /\ last = [op |-> "load"]

NextInstances ==
    \/ \E p \in TwoPerfLoggers : StartTimer(p, "'op1'")
    \/ \E p \in TwoPerfLoggers : EndTimer(p, "'op1'", EmptyProps)
    \/ Tick

SpecInstances == InitInstances /\ [][NextInstances]_vars

\* C17 as stated: all PerformanceLogger instances observe one shared
\* id-to-start mapping.
C17_SharedRegistry == \A p, q \in DOMAIN timers : timers[p] = timers[q]

\* C17: each PerformanceLogger has its own registry: endTimer(id) through an
\* instance returns a duration exactly when startTimer(id) went through that
\* same instance and was not ended since, and neither call changes the
\* registry of another instance.
C17_PerInstanceRegistry ==
    /\ [](last.op = "endTimer" =>
            (last.ret.kind = "number" <=> Outstanding(last)))
    /\ [][\A q \in DOMAIN timers :
            (last'.op \in {"startTimer", "endTimer"} /\ last'.logger # q) =>
                timers'[q] = timers[q]]_vars

\* endTimer('op1') through one instance returned null while the timer started
\* through the other instance stayed in that instance's registry
C17_Witness ==
    /\ last.op = "endTimer" /\ last.ret.kind = "null"
    /\ \E q \in DOMAIN timers \ {last.logger} :
          /\ last.id \in DOMAIN last.timersBefore[q]
          /\ last.id \in DOMAIN timers[q]

----------------------------------------------------------------------------
(* performHeavyOperation: two calls in progress on the one perfLogger *)

\* the calls a handler makes to loggers, one after the other: each is handed
\* to the transports as LoggerWrite does
LoggerWriteAll(calls) ==
    LET recs == [k \in 1..Len(calls) |->
                    [seq |-> Len(emitted) + k, level |-> calls[k].level,
                     message |-> calls[k].message, bind |-> calls[k].bind,
                     meta |-> calls[k].meta]]
    IN
    /\ emitted' = emitted \o recs
    /\ sinks' = [i \in DOMAIN sinks |->
                    LET Accepted(rec) == Accepts(transports[i], rec.level)
                    IN sinks[i] \o SelectSeq(recs, Accepted)]

Call(bind, level, message, meta) ==
    [bind |-> bind, level |-> level, message |-> message, meta |-> meta]

PerformanceBind == createChildLogger("performance", EmptyProps)

\* data.length of the argument of performHeavyOperation
DataLength == 3

\* const operationId = `heavy_op_${Date.now()}`
HeavyOperationId(t) == "'heavy_op_" \o ToString(t) \o "'"

\* the metadata of logCpuUsage, for a process of constant load
CpuUsage == [user |-> "'12ms'", system |-> "'3ms'"]

\* `${duration}ms` and data.length / duration for what endTimer returned
DurationMs(ret) == IF ret.kind = "number" THEN Ms(ret.value) ELSE "nullms"

Efficiency(ret) ==
    IF ret.kind = "number" /\ ret.value > 0
    THEN ToString(DataLength) \o "/" \o ToString(ret.value)
    ELSE "Infinity"

\* performHeavyOperation(data) up to its await: the id is taken from the
\* clock, the timer is started, the memory usage is logged
HeavyOperationStart(t) ==
    LET operationId == HeavyOperationId(now) IN
    /\ tasks[t].pc = "idle"
    /\ timers' = [timers EXCEPT !["perfLogger"] = startTimer(@, operationId, now)]
    /\ started' = [started EXCEPT !["perfLogger"] = Put(@, operationId, now)]
    /\ LoggerWriteAll(<<Call(PerformanceBind, "debug", "Memory Usage", MemoryUsage)>>)
    /\ tasks' = [tasks EXCEPT ![t] =
                    [@ EXCEPT !.pc = "awaiting", !.operationId = operationId,
                              !.startedAt = now]]
    /\ last' = [op |-> "heavyStart", task |-> t]
    /\ UNCHANGED <<children, disk, env, transports, heap, now, inflight, proc>>

\* performHeavyOperation after heavyComputation has resolved: the timer is
\* ended, the CPU usage and the completion are logged
HeavyOperationResume(t) ==
    LET operationId == tasks[t].operationId
        r == endTimer(timers["perfLogger"], operationId, now,
                      [dataSize |-> ToString(DataLength),
                       resultSize |-> ToString(DataLength)])
    IN
    /\ tasks[t].pc = "awaiting"
    /\ timers' = [timers EXCEPT !["perfLogger"] = r.timers]
    /\ started' = [started EXCEPT !["perfLogger"] = MapDelete(@, operationId)]
    /\ LoggerWriteAll(
          (IF r.logged # <<>>
              THEN <<Call(PerformanceBind, "verbose", "Performance Timer",
                          r.logged[1])>>
              ELSE <<>>)
          \o <<Call(PerformanceBind, "debug", "CPU Usage", CpuUsage),
               Call(RootLogger, "info", "Heavy operation completed",
                    [operationId |-> operationId,
                     duration |-> DurationMs(r.ret),
                     efficiency |-> Efficiency(r.ret)])>>)
    /\ tasks' = [tasks EXCEPT ![t] =
                    [@ EXCEPT !.pc = "done", !.endedAt = now, !.ret = r.ret]]
    /\ last' = [op |-> "heavyResume", task |-> t]
    /\ UNCHANGED <<children, disk, env, transports, heap, now, inflight, proc>>

\* performHeavyOperation after heavyComputation has rejected: the timer is
\* ended, the error is logged and thrown again
HeavyOperationCatch(t, error) ==
    LET operationId == tasks[t].operationId
        r == endTimer(timers["perfLogger"], operationId, now, EmptyProps)
        e == logStructuredError(error,
                                [operationId |-> operationId,
                                 dataSize |-> ToString(DataLength)], now)
    IN
    /\ tasks[t].pc = "awaiting"
    /\ ~e.threw
    /\ timers' = [timers EXCEPT !["perfLogger"] = r.timers]
    /\ started' = [started EXCEPT !["perfLogger"] = MapDelete(@, operationId)]
    /\ LoggerWriteAll(
          (IF r.logged # <<>>
              THEN <<Call(PerformanceBind, "verbose", "Performance Timer",
                          r.logged[1])>>
              ELSE <<>>)
          \o <<Call(RootLogger, "error", "Structured Error", e.logged[1])>>)
    /\ tasks' = [tasks EXCEPT ![t] =
                    [@ EXCEPT !.pc = "failed", !.endedAt = now, !.ret = r.ret]]
    /\ last' = [op |-> "heavyCatch", task |-> t]
    /\ UNCHANGED <<children, disk, env, transports, heap, now, inflight, proc>>

\* what heavyComputation rejects with
ComputationErrors ==
    {Obj([message |-> "'boom'", name |-> "'Error'", stack |-> "'Error: boom'"])}

InitTasks == Loaded(DefaultEnv)

NextTasks ==
    \/ \E t \in Tasks : HeavyOperationStart(t)
    \/ \E t \in Tasks : HeavyOperationResume(t)
    \/ \E t \in Tasks : \E error \in ComputationErrors : HeavyOperationCatch(t, error)
    \/ Tick

SpecTasks == InitTasks /\ [][NextTasks]_vars

\* C18: under every interleaving of two calls of performHeavyOperation on the
\* one perfLogger, a call still waiting has its own start instant in the
\* registry, and the endTimer of every call returns the duration measured
\* from that call's own startTimer.
C18_OwnDuration ==
    \A t \in Tasks :
        /\ tasks[t].pc = "awaiting" =>
              /\ tasks[t].operationId \in DOMAIN timers["perfLogger"]
              /\ timers["perfLogger"][tasks[t].operationId] = tasks[t].startedAt
        /\ tasks[t].pc \in {"done", "failed"} =>
              /\ tasks[t].ret.kind = "number"
              /\ tasks[t].ret.value = tasks[t].endedAt - tasks[t].startedAt

====
